---------------------------- MODULE Spec2Model ----------------------------
(***************************************************************************)
(* The interaction engine of the ProductCarousel component                 *)
(* (src/src/components/product-carousel.tsx): the selected index, the drag *)
(* session, the debounced scroll handler and the previous/next handlers,   *)
(* together with the part of the DOM they read and write (the container's  *)
(* scroll offset, its smooth scrolls and its scroll events).               *)
(*                                                                         *)
(* Lengths are the integers the DOM reports (offsetLeft, clientWidth,      *)
(* scrollWidth).  Halves (clientWidth / 2) are kept exact by comparing     *)
(* doubled values; names ending in 2 are doubled quantities.               *)
(*                                                                         *)
(* Spec is that component.  Spec_000 is the variant of it that has touch   *)
(* handlers (src/unnamed/part_000); its definitions end in _000 where the  *)
(* name is taken.                                                          *)
(***************************************************************************)
EXTENDS Integers, Sequences, FiniteSets

VARIABLES
    props,          \* cellAlign, groupCells, allowDrag, freeDrag, centerOnArrowClick, onSelect
    container,      \* the element behind containerRef: children, clientWidth, scrollWidth, grid
    attached,       \* containerRef.current is not null
    scrollLeft,     \* container.scrollLeft
    selectedIndex,  \* the selectedIndex state
    isDragging,     \* isDraggingRef.current
    dragStart,      \* dragStartRef.current (x, scrollLeft)
    scrollTimeout,  \* the number of timers set by handleScroll that are pending
    scrollSnapType, \* container.style.scrollSnapType
    smooth,         \* the smooth scroll in progress: active, target
    scrollEvent,    \* a scroll event is waiting to be dispatched
    pending,        \* listeners still to run for the event being dispatched
    notified,       \* the onSelect calls of the last step, in order
    request,        \* the scroll the last step asked of the container
    dragEnd,        \* the drag the last step ended, if it ended one
    cleared,        \* the last step cancelled a timer that was pending
    touchStart      \* touchStartRef.current (x, scrollLeft) of the touch variant

vars == <<props, container, attached, scrollLeft, selectedIndex, isDragging,
          dragStart, scrollTimeout, scrollSnapType, smooth, scrollEvent,
          pending, notified, request, dragEnd, cleared, touchStart>>

---------------------------------------------------------------------------
(* Bounds of the model *)

\* groupCells ranges over 1..MaxGroupCells
MaxGroupCells == 2
\* pointer positions are 0, grid, ..., MaxPointer * grid
MaxPointer == 1

---------------------------------------------------------------------------
(* Layouts: what the browser reports for the container and its children.   *)
(* A child is [offsetLeft, clientWidth]; children follow one another       *)
(* without overlap, and scrollWidth >= clientWidth as in every element.    *)

Cell(o, w) == [offsetLeft |-> o, clientWidth |-> w]

\* no children
EmptyLayout ==
    [children |-> <<>>, clientWidth |-> 4, scrollWidth |-> 4, grid |-> 1]

\* five cells 256 wide, 16 apart, in a viewport 800 wide
WideLayout ==
    [children |-> <<Cell(0, 256), Cell(272, 256), Cell(544, 256),
                    Cell(816, 256), Cell(1088, 256)>>,
     clientWidth |-> 800, scrollWidth |-> 1344, grid |-> 272]

\* cells of different widths, odd sums so that centering lands on halves
SmallLayout ==
    [children |-> <<Cell(0, 2), Cell(2, 1), Cell(4, 3)>>,
     clientWidth |-> 4, scrollWidth |-> 7, grid |-> 1]

\* everything fits: nothing to scroll
FitLayout ==
    [children |-> <<Cell(0, 3), Cell(4, 3)>>,
     clientWidth |-> 8, scrollWidth |-> 8, grid |-> 1]

Layouts == {EmptyLayout, WideLayout, SmallLayout, FitLayout}

Aligns == {"start", "center", "end"}

\* the host passes a listener; without one updateSelectedIndex only sets the index
Listeners == {TRUE}

\* groupCells is read in the centerOnArrowClick branch only: one value of it
\* stands for all when centerOnArrowClick is false
Props ==
    {p \in [cellAlign : Aligns, groupCells : 1..MaxGroupCells,
            allowDrag : BOOLEAN, freeDrag : BOOLEAN,
            centerOnArrowClick : BOOLEAN, onSelect : Listeners] :
        p.centerOnArrowClick \/ p.groupCells = 1}

PointerXs == {k * container.grid : k \in 0..MaxPointer}

---------------------------------------------------------------------------
(* Arithmetic *)

Min(a, b) == IF a < b THEN a ELSE b
Max(a, b) == IF a > b THEN a ELSE b
Abs(a) == IF a < 0 THEN -a ELSE a

\* a faulty rounding: Math.floor in place of Math.round
MathRoundFloor(n2) == n2 \div 2

\* Math.round(n2 / 2): the nearest integer, halves rounded up
MathRound(n2) == (n2 + 1) \div 2

\* the largest scroll offset the container can take
maxScrollLeft == container.scrollWidth - container.clientWidth

\* the browser keeps scrollLeft within the scrollable range
ClampScroll(x) == Min(Max(x, 0), maxScrollLeft)

---------------------------------------------------------------------------
(* Helpers of the component *)

getCells == IF ~attached THEN <<>> ELSE container.children

\* cells[index] of a JavaScript array: <<k>> for the cell at index k, <<>> for undefined
cellAt(cells, index) ==
    IF index >= 0 /\ index < Len(cells) THEN <<index>> ELSE <<>>

\* the local scrollLeft of calculateLeftScroll before it is clamped
alignedScrollLeft(cell) ==
    CASE props.cellAlign = "start" -> cell.offsetLeft
      [] props.cellAlign = "center" ->
            MathRound(2 * cell.offsetLeft - container.clientWidth + cell.clientWidth)
      [] props.cellAlign = "end" ->
            cell.offsetLeft + cell.clientWidth - container.clientWidth

\* faulty variants: the clamp left out, and its upper end left out
calculateLeftScrollUnclamped(cell) ==
    IF ~attached THEN 0 ELSE alignedScrollLeft(cell)

calculateLeftScrollNoUpper(cell) ==
    IF ~attached THEN 0 ELSE Max(alignedScrollLeft(cell), 0)

\* calculateLeftScroll: 0 without a container, else the aligned offset
\* clamped to [0, scrollWidth - clientWidth]
calculateLeftScroll(cell) ==
    IF ~attached THEN 0
    ELSE Min(Max(alignedScrollLeft(cell), 0), maxScrollLeft)

\* twice the distance between the cell's comparison point and the target
\* point of a container scrolled to sl
diff2(cell, sl) ==
    CASE props.cellAlign = "center" ->
            Abs((2 * cell.offsetLeft + cell.clientWidth)
                - (2 * sl + container.clientWidth))
      [] props.cellAlign = "start" ->
            Abs(2 * cell.offsetLeft - 2 * sl)
      [] props.cellAlign = "end" ->
            Abs(2 * (cell.offsetLeft + cell.clientWidth)
                - 2 * (sl + container.clientWidth))

\* a faulty comparison: <= in place of <
closerOrEqual(diff, minDiff) == minDiff = <<>> \/ diff <= minDiff[1]

\* diff < minDiff, where minDiff is <<>> while it is still Infinity
closer(diff, minDiff) == minDiff = <<>> \/ diff < minDiff[1]

\* cells.forEach of calculateClosestIndex, from the cell at index on
RECURSIVE forEachCell(_, _, _, _, _)
forEachCell(cells, sl, index, minDiff, closestIndex) ==
    IF index >= Len(cells) THEN closestIndex
    ELSE LET diff == diff2(cells[index + 1], sl)
         IN  IF closer(diff, minDiff)
             THEN forEachCell(cells, sl, index + 1, <<diff>>, index)
             ELSE forEachCell(cells, sl, index + 1, minDiff, closestIndex)

\* calculateClosestIndex for a container scrolled to sl
closestIndexAt(sl) ==
    LET cells == getCells
    IN  IF ~attached \/ Len(cells) = 0 THEN 0
        ELSE forEachCell(cells, sl, 0, <<>>, 0)

calculateClosestIndex == closestIndexAt(scrollLeft)

---------------------------------------------------------------------------
(* Effects shared by the handlers *)

NoSmooth == [active |-> FALSE, target |-> 0]
NoRequest == [kind |-> "none", left |-> 0]

\* a faulty update: the listener is not called
updateSelectedIndexSilent(index) ==
    /\ selectedIndex' = index
    /\ notified' = <<>>

\* setSelectedIndex(index), then onSelect(index, cells[index] || null) if given
updateSelectedIndex(index) ==
    /\ selectedIndex' = index
    /\ notified' = IF props.onSelect
                   THEN <<[index |-> index, cell |-> cellAt(getCells, index)]>>
                   ELSE <<>>

\* container.scrollTo({left, behavior: "smooth"}): the browser scrolls towards
\* the offset, clamped, and drops the smooth scroll that was in progress
scrollTo(left) ==
    /\ request' = [kind |-> "scrollTo", left |-> left]
    /\ smooth' = IF ClampScroll(left) # scrollLeft
                 THEN [active |-> TRUE, target |-> ClampScroll(left)]
                 ELSE NoSmooth

\* container.scrollBy({left, behavior: "smooth"})
scrollBy(left) ==
    /\ request' = [kind |-> "scrollBy", left |-> left]
    /\ smooth' = IF ClampScroll(scrollLeft + left) # scrollLeft
                 THEN [active |-> TRUE, target |-> ClampScroll(scrollLeft + left)]
                 ELSE NoSmooth

\* the last step ended no drag
NoDragEnd == [path |-> "none", displaced |-> FALSE]

\* what a drag-end event does to dragEnd: when a drag is in progress, the
\* listener the event reached and whether the pointer is away from where the
\* drag started
DragEnd(path, displaced) ==
    IF isDragging THEN [path |-> path, displaced |-> displaced] ELSE NoDragEnd

\* the step neither calls onSelect nor scrolls
Quiet == notified' = <<>> /\ request' = NoRequest

---------------------------------------------------------------------------
(* The state after the first render, before the ref is attached *)

Init ==
    /\ props \in Props
    /\ container \in Layouts
    /\ attached = FALSE
    /\ scrollLeft = 0
    /\ selectedIndex = 0
    /\ isDragging = FALSE
    /\ dragStart = [x |-> 0, scrollLeft |-> 0]
    /\ scrollTimeout = 0
    /\ scrollSnapType = ""
    /\ smooth = NoSmooth
    /\ scrollEvent = FALSE
    /\ pending = <<>>
    /\ notified = <<>>
    /\ request = NoRequest
    /\ dragEnd = NoDragEnd
    /\ cleared = FALSE
    /\ touchStart = [x |-> 0, scrollLeft |-> 0]

\* the commit: React sets containerRef.current and runs the effects that add
\* the scroll listener and the document mouseup listener
Attach ==
    /\ ~attached
    /\ attached' = TRUE
    /\ Quiet
    /\ dragEnd' = NoDragEnd
    /\ cleared' = FALSE
    /\ UNCHANGED <<touchStart, props, container, scrollLeft, selectedIndex, isDragging,
                   dragStart, scrollTimeout, scrollSnapType, smooth,
                   scrollEvent, pending>>

---------------------------------------------------------------------------
(* The debounced scroll handler *)

\* a faulty handler: the pending timer is left running
clearTimeoutMissing(timers) == timers

\* if (scrollTimeoutRef.current) window.clearTimeout(scrollTimeoutRef.current):
\* the ref names the timer set last; cancelling it takes it from the pending
\* timers, and does nothing when it has fired already or was never set
clearTimeout(timers) == IF timers > 0 THEN timers - 1 ELSE 0

\* the browser dispatches the scroll event: handleScroll clears the pending
\* timer and sets a new one
handleScroll ==
    /\ attached /\ pending = <<>>
    /\ scrollEvent
    /\ scrollEvent' = FALSE
    /\ scrollTimeout' = clearTimeout(scrollTimeout) + 1
    /\ cleared' = (clearTimeout(scrollTimeout) < scrollTimeout)
    /\ Quiet
    /\ dragEnd' = NoDragEnd
    /\ UNCHANGED <<touchStart, props, container, attached, scrollLeft,
                   selectedIndex, isDragging, dragStart, scrollSnapType,
                   smooth, pending>>

\* a faulty callback: freeDrag not looked at
resolvesOnExpiryAlways == TRUE

\* the test of the timer callback: if (!freeDrag)
resolvesOnExpiry == ~props.freeDrag

\* the timer of handleScroll expires
scrollTimeoutExpires ==
    /\ pending = <<>>
    /\ scrollTimeout > 0
    /\ scrollTimeout' = scrollTimeout - 1
    /\ IF resolvesOnExpiry
       THEN updateSelectedIndex(calculateClosestIndex)
       ELSE notified' = <<>> /\ UNCHANGED selectedIndex
    /\ request' = NoRequest
    /\ dragEnd' = NoDragEnd
    /\ cleared' = FALSE
    /\ UNCHANGED <<touchStart, props, container, attached, scrollLeft,
                   isDragging, dragStart, scrollSnapType, smooth, scrollEvent,
                   pending>>

\* a frame of the smooth scroll in progress: the offset moves towards the
\* target, or reaches it, and a scroll event follows
smoothScrollFrame ==
    /\ attached /\ pending = <<>>
    /\ smooth.active
    /\ \E pos \in {smooth.target,
                    IF smooth.target > scrollLeft
                    THEN Min(scrollLeft + container.grid, smooth.target)
                    ELSE Max(scrollLeft - container.grid, smooth.target)} :
          /\ scrollLeft' = pos
          /\ smooth' = IF pos = smooth.target THEN NoSmooth ELSE smooth
    /\ scrollEvent' = TRUE
    /\ Quiet
    /\ dragEnd' = NoDragEnd
    /\ cleared' = FALSE
    /\ UNCHANGED <<touchStart, props, container, attached, selectedIndex, isDragging,
                   dragStart, scrollTimeout, scrollSnapType, pending>>

---------------------------------------------------------------------------
(* Dragging with the mouse *)

\* onMouseDown
handleMouseDown(x) ==
    /\ attached /\ pending = <<>>
    /\ IF ~props.allowDrag
       THEN UNCHANGED <<isDragging, dragStart, scrollSnapType>>
       ELSE /\ isDragging' = TRUE
            /\ IF attached
               THEN /\ dragStart' = [x |-> x, scrollLeft |-> scrollLeft]
                    /\ scrollSnapType' = "none"
               ELSE UNCHANGED <<dragStart, scrollSnapType>>
    /\ Quiet
    /\ dragEnd' = NoDragEnd
    /\ cleared' = FALSE
    /\ UNCHANGED <<touchStart, props, container, attached, scrollLeft, selectedIndex,
                   scrollTimeout, smooth, scrollEvent, pending>>

\* onMouseMove: the assignment to scrollLeft ends the smooth scroll in
\* progress; a scroll event follows when the offset changed
handleMouseMove(x) ==
    /\ attached /\ pending = <<>>
    /\ IF ~isDragging \/ ~attached
       THEN /\ request' = NoRequest
            /\ UNCHANGED <<scrollLeft, smooth, scrollEvent>>
       ELSE LET dx == x - dragStart.x
                left == dragStart.scrollLeft - dx
            IN  /\ request' = [kind |-> "scrollLeft", left |-> left]
                /\ scrollLeft' = ClampScroll(left)
                /\ smooth' = NoSmooth
                /\ scrollEvent' = (scrollEvent \/ ClampScroll(left) # scrollLeft)
    /\ notified' = <<>>
    /\ dragEnd' = NoDragEnd
    /\ cleared' = FALSE
    /\ UNCHANGED <<touchStart, props, container, attached, selectedIndex, isDragging,
                   dragStart, scrollTimeout, scrollSnapType, pending>>

\* a faulty test: freeDrag not looked at
snapsOnMouseUpFreeDrag(x) == Abs(x - dragStart.x) > 0

\* the test of handleMouseUp that lets it snap: !freeDrag and the pointer
\* is not where the drag started
snapsOnMouseUp(x) == ~props.freeDrag /\ Abs(x - dragStart.x) > 0

\* a faulty snap: the closest cell is selected and not scrolled to
snapToClosestNoScroll ==
    /\ request' = NoRequest /\ UNCHANGED smooth
    /\ updateSelectedIndex(calculateClosestIndex)

\* resolve the closest cell, scroll to it and select it (handleMouseUp and
\* handleDocumentMouseUp share these lines)
snapToClosest ==
    LET cells == getCells
        closestIndex == calculateClosestIndex
    IN  /\ IF cellAt(cells, closestIndex) # <<>>
           THEN scrollTo(calculateLeftScroll(cells[closestIndex + 1]))
           ELSE request' = NoRequest /\ UNCHANGED smooth
        /\ updateSelectedIndex(closestIndex)

\* a faulty handler: isDraggingRef is left set
handleMouseUpKeepsDragging(x) ==
    IF ~props.allowDrag \/ ~attached
    THEN /\ Quiet
         /\ UNCHANGED <<isDragging, scrollSnapType, selectedIndex, smooth>>
    ELSE /\ UNCHANGED isDragging
         /\ scrollSnapType' = ""
         /\ IF snapsOnMouseUp(x)
            THEN snapToClosest
            ELSE Quiet /\ UNCHANGED <<selectedIndex, smooth>>

\* the body of handleMouseUp, bound to onMouseUp and to onMouseLeave
handleMouseUp(x) ==
    IF ~props.allowDrag \/ ~attached
    THEN /\ Quiet
         /\ UNCHANGED <<isDragging, scrollSnapType, selectedIndex, smooth>>
    ELSE /\ isDragging' = FALSE
         /\ scrollSnapType' = ""
         /\ IF snapsOnMouseUp(x)
            THEN snapToClosest
            ELSE Quiet /\ UNCHANGED <<selectedIndex, smooth>>

\* a faulty component: the document listener does nothing
handleDocumentMouseUpMissing ==
    /\ Quiet
    /\ UNCHANGED <<isDragging, scrollSnapType, selectedIndex, smooth>>

\* the body of handleDocumentMouseUp
handleDocumentMouseUp ==
    IF isDragging /\ attached
    THEN /\ isDragging' = FALSE
         /\ scrollSnapType' = ""
         /\ IF ~props.freeDrag
            THEN snapToClosest
            ELSE Quiet /\ UNCHANGED <<selectedIndex, smooth>>
    ELSE /\ Quiet
         /\ UNCHANGED <<isDragging, scrollSnapType, selectedIndex, smooth>>

\* the button is released over the container: onMouseUp runs, and the
\* event goes on to the document
MouseUp(x) ==
    /\ attached /\ pending = <<>>
    /\ handleMouseUp(x)
    /\ pending' = <<"document">>
    /\ dragEnd' = DragEnd("mouseup", x # dragStart.x)
    /\ cleared' = FALSE
    /\ UNCHANGED <<touchStart, props, container, attached, scrollLeft, dragStart,
                   scrollTimeout, scrollEvent>>

\* the pointer leaves the container: onMouseLeave runs
MouseLeave(x) ==
    /\ attached /\ pending = <<>>
    /\ handleMouseUp(x)
    /\ dragEnd' = DragEnd("mouseleave", x # dragStart.x)
    /\ cleared' = FALSE
    /\ UNCHANGED <<touchStart, props, container, attached, scrollLeft, dragStart,
                   scrollTimeout, scrollEvent, pending>>

\* the document listener receives the mouseup that onMouseUp handled
DocumentMouseUp ==
    /\ pending = <<"document">>
    /\ handleDocumentMouseUp
    /\ pending' = <<>>
    /\ dragEnd' = DragEnd("document", dragEnd.displaced)
    /\ cleared' = FALSE
    /\ UNCHANGED <<touchStart, props, container, attached, scrollLeft, dragStart,
                   scrollTimeout, scrollEvent>>

\* a mouseup that reaches the document listener only: the button is released
\* off the container, or a child stopped the event before onMouseUp
DocumentOnlyMouseUp(x) ==
    /\ attached /\ pending = <<>>
    /\ handleDocumentMouseUp
    /\ dragEnd' = DragEnd("document", x # dragStart.x)
    /\ cleared' = FALSE
    /\ UNCHANGED <<touchStart, props, container, attached, scrollLeft, dragStart,
                   scrollTimeout, scrollEvent, pending>>

---------------------------------------------------------------------------
(* The arrow buttons *)

\* newIndex of handlePrevious
previousIndex(cells) == Max(selectedIndex - props.groupCells, 0)

\* a faulty step: groupCells not looked at
nextIndexByOne(cells) == Min(selectedIndex + 1, Len(cells) - 1)

\* newIndex of handleNext
nextIndex(cells) == Min(selectedIndex + props.groupCells, Len(cells) - 1)

\* the centerOnArrowClick branch of both handlers
centerOn(cells, newIndex) ==
    /\ updateSelectedIndex(newIndex)
    /\ IF attached /\ cellAt(cells, newIndex) # <<>>
       THEN scrollTo(calculateLeftScroll(cells[newIndex + 1]))
       ELSE request' = NoRequest /\ UNCHANGED smooth

\* a faulty branch: both arrows scroll forward
pageByForward(sign) ==
    /\ notified' = <<>>
    /\ UNCHANGED selectedIndex
    /\ IF attached
       THEN scrollBy(container.clientWidth)
       ELSE request' = NoRequest /\ UNCHANGED smooth

\* the other branch: scroll by the width of the container
pageBy(sign) ==
    /\ notified' = <<>>
    /\ UNCHANGED selectedIndex
    /\ IF attached
       THEN scrollBy(sign * container.clientWidth)
       ELSE request' = NoRequest /\ UNCHANGED smooth

\* onClick of the left arrow, which is rendered with the container
handlePrevious ==
    /\ attached /\ pending = <<>>
    /\ LET cells == getCells
       IN  IF props.centerOnArrowClick
           THEN centerOn(cells, previousIndex(cells))
           ELSE pageBy(-1)
    /\ dragEnd' = NoDragEnd
    /\ cleared' = FALSE
    /\ UNCHANGED <<touchStart, props, container, attached, scrollLeft, isDragging,
                   dragStart, scrollTimeout, scrollSnapType, scrollEvent,
                   pending>>

\* onClick of the right arrow
handleNext ==
    /\ attached /\ pending = <<>>
    /\ LET cells == getCells
       IN  IF props.centerOnArrowClick
           THEN centerOn(cells, nextIndex(cells))
           ELSE pageBy(1)
    /\ dragEnd' = NoDragEnd
    /\ cleared' = FALSE
    /\ UNCHANGED <<touchStart, props, container, attached, scrollLeft, isDragging,
                   dragStart, scrollTimeout, scrollSnapType, scrollEvent,
                   pending>>

---------------------------------------------------------------------------

Next ==
    \/ Attach
    \/ handleScroll
    \/ scrollTimeoutExpires
    \/ smoothScrollFrame
    \/ \E x \in PointerXs : handleMouseDown(x)
    \/ \E x \in PointerXs : handleMouseMove(x)
    \/ \E x \in PointerXs : MouseUp(x)
    \/ \E x \in PointerXs : MouseLeave(x)
    \/ DocumentMouseUp
    \/ \E x \in PointerXs : DocumentOnlyMouseUp(x)
    \/ handlePrevious
    \/ handleNext

Spec == Init /\ [][Next]_vars

---------------------------------------------------------------------------
(* The variant of the component with touch handlers (src/unnamed/part_000). *)
(* It has no scroll listener, no document listener and no freeDrag; its     *)
(* getCells, calculateLeftScroll, updateSelectedIndex, handleMouseMove,     *)
(* handlePrevious and handleNext are, line for line, those modelled above.  *)

\* the variant has no freeDrag prop: the field keeps one value
Props_000 == {p \in Props : ~p.freeDrag}

Init_000 == Init /\ props \in Props_000

\* what a handler of the variant leaves alone besides what it names
Unchanged_000 ==
    /\ Quiet
    /\ dragEnd' = NoDragEnd
    /\ cleared' = FALSE
    /\ UNCHANGED <<props, container, attached, selectedIndex, scrollTimeout,
                   scrollSnapType, pending>>

\* onMouseDown of the variant
handleMouseDown_000(x) ==
    /\ attached
    /\ IF ~props.allowDrag
       THEN UNCHANGED <<isDragging, dragStart>>
       ELSE /\ isDragging' = TRUE
            /\ IF attached
               THEN dragStart' = [x |-> x, scrollLeft |-> scrollLeft]
               ELSE UNCHANGED dragStart
    /\ Unchanged_000
    /\ UNCHANGED <<scrollLeft, smooth, scrollEvent, touchStart>>

\* onMouseUp and onMouseLeave of the variant
handleMouseUp_000 ==
    /\ attached
    /\ isDragging' = (IF ~props.allowDrag THEN isDragging ELSE FALSE)
    /\ Unchanged_000
    /\ UNCHANGED <<scrollLeft, smooth, scrollEvent, dragStart, touchStart>>

\* onTouchStart: the touch at clientX = x
handleTouchStart(x) ==
    /\ attached
    /\ IF ~props.allowDrag
       THEN UNCHANGED touchStart
       ELSE touchStart' = [x |-> x,
                           scrollLeft |-> IF attached THEN scrollLeft ELSE 0]
    /\ Unchanged_000
    /\ UNCHANGED <<scrollLeft, smooth, scrollEvent, isDragging, dragStart>>

\* onTouchMove: the assignment to scrollLeft, as in handleMouseMove
handleTouchMove(x) ==
    /\ attached
    /\ IF ~attached
       THEN /\ request' = NoRequest
            /\ UNCHANGED <<scrollLeft, smooth, scrollEvent>>
       ELSE LET dx == x - touchStart.x
                left == touchStart.scrollLeft - dx
            IN  /\ request' = [kind |-> "scrollLeft", left |-> left]
                /\ scrollLeft' = ClampScroll(left)
                /\ smooth' = NoSmooth
                /\ scrollEvent' = (scrollEvent \/ ClampScroll(left) # scrollLeft)
    /\ notified' = <<>>
    /\ dragEnd' = NoDragEnd
    /\ cleared' = FALSE
    /\ UNCHANGED <<props, container, attached, selectedIndex, scrollTimeout,
                   scrollSnapType, pending, isDragging, dragStart, touchStart>>

\* onTouchEnd: an empty handler
handleTouchEnd ==
    /\ attached
    /\ Unchanged_000
    /\ UNCHANGED <<scrollLeft, smooth, scrollEvent, isDragging, dragStart,
                   touchStart>>

\* scroll events reach no listener in the variant: smoothScrollFrame and the
\* assignments to scrollLeft raise them, and nothing handles them
Next_000 ==
    \/ Attach
    \/ smoothScrollFrame
    \/ \E x \in PointerXs : handleMouseDown_000(x)
    \/ \E x \in PointerXs : handleMouseMove(x)
    \/ handleMouseUp_000
    \/ \E x \in PointerXs : handleTouchStart(x)
    \/ \E x \in PointerXs : handleTouchMove(x)
    \/ handleTouchEnd
    \/ handlePrevious
    \/ handleNext

Spec_000 == Init_000 /\ [][Next_000]_vars

---------------------------------------------------------------------------
(* Properties *)

\* the indexes of the cells the component sees
Indexes == 0..(Len(getCells) - 1)

\* C1: the selected index is in [0, cellCount-1], or is 0 when the cell
\* list is empty
C1_SelectedIndexInRange ==
    IF Len(getCells) = 0 THEN selectedIndex = 0 ELSE selectedIndex \in Indexes

\* C2: with centerOnArrowClick and a non-empty cell list, next() sets the
\* selected index to min(i + groupCells, cellCount-1) and previous() sets it
\* to max(i - groupCells, 0); with five cells and groupCells = 2, next() goes
\* from 0 to 2 and from 2 to 4
C2_Stepping ==
    [][(props.centerOnArrowClick /\ Len(getCells) > 0) =>
          /\ handleNext =>
                /\ selectedIndex' =
                      Min(selectedIndex + props.groupCells, Len(getCells) - 1)
                /\ (Len(getCells) = 5 /\ props.groupCells = 2 /\ selectedIndex = 0)
                      => selectedIndex' = 2
                /\ (Len(getCells) = 5 /\ props.groupCells = 2 /\ selectedIndex = 2)
                      => selectedIndex' = 4
          /\ handlePrevious =>
                selectedIndex' = Max(selectedIndex - props.groupCells, 0)]_vars

\* next() has been called twice from index 0 with five cells and
\* groupCells = 2: index 4 is selected, announced and scrolled to
C2_Witness ==
    /\ attached /\ container = WideLayout
    /\ props.centerOnArrowClick /\ props.groupCells = 2
    /\ selectedIndex = 4
    /\ notified = <<[index |-> 4, cell |-> <<4>>]>>
    /\ request.kind = "scrollTo"

\* C3: while the component sees no cells (the cell list is empty, or the
\* container is not attached), next() and previous() leave the selected
\* index unchanged, do not call the listener and request no scroll
C3_NavigationNoOpWithoutCells ==
    [][((handleNext \/ handlePrevious) /\ Len(getCells) = 0) =>
          /\ selectedIndex' = selectedIndex
          /\ notified' = <<>>
          /\ request' = NoRequest]_vars

\* C4: for every alignment, every cell and every viewport the offset of
\* calculateLeftScroll lies in [0, scrollWidth - clientWidth], and so does
\* every offset a handler passes to scrollTo
C4_AlignedOffsetInRange ==
    attached =>
        /\ \A i \in Indexes :
              calculateLeftScroll(getCells[i + 1]) \in 0..maxScrollLeft
        /\ request.kind = "scrollTo" => request.left \in 0..maxScrollLeft

\* a cell whose aligned offset lies beyond the scrollable range has been
\* selected and scrolled to: the offset requested is the end of the range
C4_Witness ==
    /\ attached /\ selectedIndex \in Indexes
    /\ alignedScrollLeft(getCells[selectedIndex + 1]) > maxScrollLeft
    /\ \E j \in Indexes : alignedScrollLeft(getCells[j + 1]) < 0
    /\ request = [kind |-> "scrollTo", left |-> maxScrollLeft]

\* C5: when scrollWidth <= clientWidth, calculateLeftScroll returns 0 for
\* every cell and every alignment
C5_DegenerateViewportOffsetZero ==
    (attached /\ container.scrollWidth <= container.clientWidth) =>
        /\ \A i \in Indexes : calculateLeftScroll(getCells[i + 1]) = 0
        /\ request.kind = "scrollTo" => request.left = 0

\* in a container with nothing to scroll, a cell that does not start at 0
\* has been selected and scrolled to: the offset requested is 0
C5_Witness ==
    /\ attached /\ container.scrollWidth <= container.clientWidth
    /\ selectedIndex \in Indexes
    /\ alignedScrollLeft(getCells[selectedIndex + 1]) > 0
    /\ request = [kind |-> "scrollTo", left |-> 0]

\* C6: for cells with strictly increasing, non-overlapping offsets and one
\* alignment, scrolling to calculateLeftScroll(cell i) and then resolving the
\* closest cell returns i, for every i (checked where there is something to
\* scroll: scrollWidth > clientWidth)
C6_RoundTrip ==
    LET cells == getCells
    IN  (/\ attached /\ maxScrollLeft > 0
         /\ \A i \in 1..(Len(cells) - 1) :
               /\ cells[i].offsetLeft < cells[i + 1].offsetLeft
               /\ cells[i].offsetLeft + cells[i].clientWidth
                     <= cells[i + 1].offsetLeft)
        => \A i \in Indexes :
              closestIndexAt(calculateLeftScroll(cells[i + 1])) = i

\* C7: calculateClosestIndex returns the index whose comparison point is
\* nearest to the target point of the alignment, and the lowest such index
\* when several cells are equally near
C7_ClosestCell ==
    LET cells == getCells
        \* twice the comparison point of a cell and twice the target point
        point2(c) == CASE props.cellAlign = "start" -> 2 * c.offsetLeft
                       [] props.cellAlign = "center" -> 2 * c.offsetLeft + c.clientWidth
                       [] props.cellAlign = "end" -> 2 * (c.offsetLeft + c.clientWidth)
        target2 == CASE props.cellAlign = "start" -> 2 * scrollLeft
                     [] props.cellAlign = "center" -> 2 * scrollLeft + container.clientWidth
                     [] props.cellAlign = "end" -> 2 * (scrollLeft + container.clientWidth)
        dist2(j) == Abs(point2(cells[j + 1]) - target2)
        r == calculateClosestIndex
    IN  (attached /\ Len(cells) > 0) =>
            /\ r \in Indexes
            /\ \A j \in Indexes : dist2(r) <= dist2(j)
            /\ \A j \in Indexes : j < r => dist2(j) > dist2(r)

\* the timer has expired where two cells are equally near the target point:
\* the lower of them is selected and announced
C7_Witness ==
    /\ attached /\ ~props.freeDrag
    /\ request = NoRequest
    /\ selectedIndex = calculateClosestIndex
    /\ notified = <<[index |-> selectedIndex, cell |-> <<selectedIndex>>]>>
    /\ selectedIndex + 1 \in Indexes
    /\ diff2(getCells[selectedIndex + 1], scrollLeft)
          = diff2(getCells[selectedIndex + 2], scrollLeft)

\* C8: calculateLeftScroll is, clamped to [0, scrollWidth - clientWidth],
\* start: offsetLeft; center: round(offsetLeft - clientWidth/2 + width/2);
\* end: offsetLeft + width - clientWidth; with five cells 256 wide at pitch
\* 272 in a viewport 800 wide, centering index 2 gives 272
C8_AlignmentFormulas ==
    LET cells == getCells
        hi == maxScrollLeft
        clamp(a) == IF a < 0 THEN 0 ELSE IF a > hi THEN hi ELSE a
        \* v is x2 / 2 rounded to the nearest integer, halves up, then clamped
        roundedAndClamped(v, x2) ==
            \/ 2 * v - 1 <= x2 /\ x2 <= 2 * v /\ v \in 0..hi
            \/ v = 0 /\ x2 <= 0
            \/ v = hi /\ x2 >= 2 * hi - 1
    IN  attached =>
            /\ \A i \in Indexes :
                  LET c == cells[i + 1]
                      v == calculateLeftScroll(c)
                  IN  CASE props.cellAlign = "start" -> v = clamp(c.offsetLeft)
                        [] props.cellAlign = "center" ->
                              roundedAndClamped(v, 2 * c.offsetLeft
                                  - container.clientWidth + c.clientWidth)
                        [] props.cellAlign = "end" ->
                              v = clamp(c.offsetLeft + c.clientWidth
                                        - container.clientWidth)
            /\ (container = WideLayout /\ props.cellAlign = "center")
                  => calculateLeftScroll(cells[3]) = 272

\* in the layout of the example, index 2 has been selected and centered:
\* the offset requested is 272
C8_Witness ==
    /\ attached /\ container = WideLayout /\ props.cellAlign = "center"
    /\ selectedIndex = 2
    /\ notified = <<[index |-> 2, cell |-> <<2>>]>>
    /\ request = [kind |-> "scrollTo", left |-> 272]

\* C9: a drag that ends with the pointer where it started requests no
\* scroll, whether onMouseUp, onMouseLeave or the document listener ends it
C9_ZeroDisplacementNoScroll ==
    (dragEnd.path # "none" /\ ~dragEnd.displaced) => request.kind = "none"

\* C10: with freeDrag, pressing, dragging and releasing neither change the
\* selected index nor call the listener; only the expiry of the scroll timer
\* may resolve the index afterwards
C10_FreeDragKeepsIndex ==
    [][props.freeDrag =>
          \A x \in PointerXs :
              (\/ handleMouseDown(x) \/ handleMouseMove(x)
               \/ MouseUp(x) \/ MouseLeave(x)
               \/ DocumentMouseUp \/ DocumentOnlyMouseUp(x)
               \/ handleScroll \/ smoothScrollFrame)
              => selectedIndex' = selectedIndex /\ notified' = <<>>]_vars

\* with freeDrag, a drag has just been released over the container, away
\* from where it started and between two cells: the cell nearest now is not
\* the selected one, and nothing was announced
C10_Witness ==
    /\ attached /\ props.freeDrag
    /\ dragEnd = [path |-> "mouseup", displaced |-> TRUE]
    /\ scrollLeft # dragStart.scrollLeft
    /\ \A i \in Indexes : calculateLeftScroll(getCells[i + 1]) # scrollLeft
    /\ calculateClosestIndex # selectedIndex
    /\ notified = <<>> /\ request = NoRequest

\* C11: where cells exist, the listener is called only by a step that changes
\* the value of the selected index: previous() at index 0, next() at the last
\* index, and a settle or a drag-end that resolves the selected cell call
\* nothing
C11_NotifiedOnlyOnChange ==
    [][(Len(getCells) > 0 /\ notified' # <<>>)
          => selectedIndex' # selectedIndex]_vars

\* C12: every offset the component asks of the container lies in
\* [0, scrollWidth - clientWidth]: the value assigned to scrollLeft by a
\* drag move, the offset of a scrollTo, and the offset a scrollBy leads to
\* (stated of a container that has cells)
C12_RequestedOffsetsInRange ==
    Len(getCells) > 0 =>
        /\ request.kind \in {"scrollLeft", "scrollTo"}
              => request.left \in 0..maxScrollLeft
        /\ request.kind = "scrollBy"
              => scrollLeft + request.left \in 0..maxScrollLeft

\* C13: a release or a leave that arrives while no drag is in progress
\* changes neither the selected index nor the scroll offset, requests no
\* scroll and does not call the listener (stated of a container that has
\* cells)
C13_DragEndWithoutDragIgnored ==
    [][(~isDragging /\ Len(getCells) > 0) =>
          \A x \in PointerXs :
              (\/ MouseUp(x) \/ MouseLeave(x)
               \/ DocumentMouseUp \/ DocumentOnlyMouseUp(x))
              => /\ selectedIndex' = selectedIndex
                 /\ scrollLeft' = scrollLeft
                 /\ request' = NoRequest
                 /\ notified' = <<>>]_vars

\* C14: with allowDrag false, no mouse handler and no touch handler starts a
\* drag or changes the scroll offset (stated of the variant that has touch
\* handlers)
C14_AllowDragFalseBlocksDrag ==
    [][~props.allowDrag =>
          \A x \in PointerXs :
              (\/ handleMouseDown_000(x) \/ handleMouseMove(x)
               \/ handleMouseUp_000
               \/ handleTouchStart(x) \/ handleTouchMove(x)
               \/ handleTouchEnd)
              => ~isDragging' /\ scrollLeft' = scrollLeft]_vars

\* C15: a step that changes the selected index calls the listener exactly
\* once, with the new index and the cell at that index, or null when there
\* is no cell at that index
C15_ChangeIsNotified ==
    [][selectedIndex' # selectedIndex =>
          notified' = <<[index |-> selectedIndex',
                         cell |-> IF selectedIndex' \in Indexes
                                  THEN <<selectedIndex'>> ELSE <<>>]>>]_vars

\* an arrow click has just moved the selection to index 1 while the
\* container is still at offset 0, where start alignment resolves index 0:
\* the listener was called once, with index 1 and its cell
C15_Witness ==
    /\ attached /\ container = WideLayout /\ props.cellAlign = "start"
    /\ scrollLeft = 0 /\ selectedIndex = 1
    /\ notified = <<[index |-> 1, cell |-> <<1>>]>>
    /\ request = [kind |-> "scrollTo", left |-> 272]

\* C16: a drag-start cancels the pending timer of handleScroll: after a
\* mouse down that starts a drag no timer set before it is pending, so none
\* expires during the drag
C16_DragStartCancelsTimer ==
    [][\A x \in PointerXs :
          (handleMouseDown(x) /\ props.allowDrag /\ ~isDragging)
              => scrollTimeout' = 0]_vars

\* C17: the component is idle, dragging or settling, and one of them only:
\* a drag is never in progress while a timer of handleScroll is pending
C17_DraggingExcludesSettling ==
    ~(isDragging /\ scrollTimeout > 0)

\* C18: every scroll event cancels the timer that is pending, if any, and
\* sets a new one, so that one timer is pending after it, never two; the
\* timer that expires is the one set last, with no scroll event since it
\* was set, and leaves none pending
C18_DebounceRestart ==
    [][/\ handleScroll =>
             (scrollTimeout' = 1 /\ cleared' = (scrollTimeout > 0))
       /\ scrollTimeoutExpires => scrollTimeout' = 0
       /\ scrollTimeout' \in {0, 1}]_vars

\* during a smooth scroll a scroll event has arrived while the timer of an
\* earlier one was pending: that timer was cancelled and one is pending
C18_Witness ==
    /\ attached /\ smooth.active /\ ~scrollEvent
    /\ cleared /\ scrollTimeout = 1

\* C19: when the timer expires with freeDrag false, the selected index
\* becomes the closest index of the viewport as it is then, and no scroll is
\* requested; with freeDrag true the selected index and the scroll offset
\* stay and the listener is not called
C19_TimerExpiry ==
    [][scrollTimeoutExpires =>
          /\ scrollLeft' = scrollLeft
          /\ request' = NoRequest /\ smooth' = smooth
          /\ IF ~props.freeDrag
             THEN selectedIndex' = calculateClosestIndex
             ELSE selectedIndex' = selectedIndex /\ notified' = <<>>]_vars

\* the timer has just expired with freeDrag false in a container scrolled
\* away from its first cell: the cell closest now is selected and announced,
\* and nothing was asked of the container
C19_Witness ==
    /\ attached /\ ~props.freeDrag /\ Len(getCells) > 0
    /\ scrollTimeout = 0 /\ scrollLeft > 0
    /\ selectedIndex = calculateClosestIndex /\ selectedIndex > 0
    /\ notified = <<[index |-> selectedIndex, cell |-> <<selectedIndex>>]>>
    /\ request = NoRequest

\* C20: with centerOnArrowClick false, previous() and next() leave the
\* selected index and the scroll offset as they are and call no listener;
\* they request a smooth scrollBy of -clientWidth and +clientWidth; the
\* scroll that follows and its scroll events do not change the index
\* either: only the expiry of the timer does
C20_PagingKeepsIndex ==
    [][~props.centerOnArrowClick =>
          /\ handlePrevious =>
                /\ selectedIndex' = selectedIndex /\ notified' = <<>>
                /\ scrollLeft' = scrollLeft
                /\ request' = [kind |-> "scrollBy",
                               left |-> 0 - container.clientWidth]
          /\ handleNext =>
                /\ selectedIndex' = selectedIndex /\ notified' = <<>>
                /\ scrollLeft' = scrollLeft
                /\ request' = [kind |-> "scrollBy",
                               left |-> container.clientWidth]
          /\ (smoothScrollFrame \/ handleScroll) =>
                selectedIndex' = selectedIndex /\ notified' = <<>>]_vars

\* with centerOnArrowClick false the container has been paged forward and
\* previous() has just been clicked: the scroll back is requested, and index
\* 0 is still selected although another cell is the closest
C20_Witness ==
    /\ attached /\ ~props.centerOnArrowClick
    /\ scrollLeft > 0 /\ selectedIndex = 0 /\ calculateClosestIndex # 0
    /\ request = [kind |-> "scrollBy", left |-> 0 - container.clientWidth]
    /\ smooth = [active |-> TRUE, target |-> 0]
    /\ notified = <<>>

\* C21: when a drag ends with freeDrag false and the pointer away from where
\* the drag started, the step that ends it resolves the closest index of the
\* viewport as it is, requests a smooth scroll to the aligned offset of that
\* cell, and selects that index (stated of a container that has cells)
C21_DragEndSnaps ==
    (/\ dragEnd.path # "none" /\ dragEnd.displaced
     /\ ~props.freeDrag /\ Len(getCells) > 0)
    => LET closestIndex == calculateClosestIndex
       IN  /\ closestIndex \in Indexes
           /\ request = [kind |-> "scrollTo",
                         left |-> calculateLeftScroll(getCells[closestIndex + 1])]
           /\ selectedIndex = closestIndex
           /\ notified = <<[index |-> closestIndex, cell |-> <<closestIndex>>]>>

\* a drag that moved the container away from its first cell has just ended
\* by the pointer leaving the container, away from where it was pressed:
\* the closest cell is selected and scrolled to
C21_Witness ==
    /\ attached /\ ~props.freeDrag
    /\ dragEnd = [path |-> "mouseleave", displaced |-> TRUE]
    /\ scrollLeft # dragStart.scrollLeft
    /\ selectedIndex = calculateClosestIndex /\ selectedIndex > 0
    /\ request.kind = "scrollTo"
    /\ notified = <<[index |-> selectedIndex, cell |-> <<selectedIndex>>]>>

\* C22: a pointer release ends the drag in progress, whether it reaches the
\* container or the document only (a release away from the container):
\* after it no drag is in progress and scrollSnapType is restored; and the
\* snap is off during a drag only, so that nothing is left stuck in dragging
C22_ReleaseEndsDrag ==
    /\ dragEnd.path # "none" => (~isDragging /\ scrollSnapType = "")
    /\ pending # <<>> => ~isDragging
    /\ ~isDragging => scrollSnapType = ""

\* a drag has just been ended by a release that reached the document
\* listener only: no drag is in progress and the snap is restored
C22_Witness ==
    /\ attached /\ dragEnd.path = "document"
    /\ scrollLeft # dragStart.scrollLeft
    /\ ~isDragging /\ scrollSnapType = ""

\* C23: with centerOnArrowClick true and freeDrag false, once the smooth
\* scroll requested by next() or previous() has brought the container to the
\* aligned offset of the selected cell and rests there, the expiry of the
\* timer set by that scroll leaves the selected index as it is, for every
\* cell and every alignment
C23_SettleKeepsCandidate ==
    [][(/\ scrollTimeoutExpires
        /\ props.centerOnArrowClick /\ ~props.freeDrag
        /\ ~isDragging /\ ~smooth.active /\ ~scrollEvent
        /\ selectedIndex \in Indexes
        /\ scrollLeft = calculateLeftScroll(getCells[selectedIndex + 1]))
       => selectedIndex' = selectedIndex]_vars

===========================================================================
